---- MODULE Spec2Model ----
(***************************************************************************)
(* Flow-AI: the workflow wizard (WorkflowWizard component), the workflow   *)
(* store kept by App, and the Gemini service functions the wizard calls.   *)
(*                                                                         *)
(* Conventions of the model                                                *)
(*   - a JavaScript string that the code concatenates, trims or tests for  *)
(*     truthiness is a sequence of one-character strings ("a b" is         *)
(*     <<"a", " ", "b">>); names, descriptions and enum members that the   *)
(*     code only copies are TLA+ strings, and "undefined" stands for a     *)
(*     missing property;                                                   *)
(*   - a nullable value is Null or Some(v);                                *)
(*   - an async handler is split at its await: the click action runs the   *)
(*     code up to the await and puts a request, with the values the        *)
(*     closure captured, into inflight; the ...Done action runs the code   *)
(*     after the await with the capability's response;                     *)
(*   - ev and calls are history variables: the last event handled and the  *)
(*     number of requests sent to the capability.                          *)
(***************************************************************************)
EXTENDS Integers, Sequences, FiniteSets, TLC

VARIABLES
    workflows,              \* App: useState<Workflow[]>
    view,                   \* App: 'dashboard' | 'wizard' | 'settings'
    activeWorkflowId,       \* App: string | null
    session,                \* number of the mounted WorkflowWizard instance
    step,                   \* WorkflowWizard: useState<WizardStep>
    loading,                \* WorkflowWizard: busy flag
    promptText,             \* WorkflowWizard: the input buffer
    conversationHistory,    \* WorkflowWizard: sequence of {role, text}
    clarificationQuestion,  \* WorkflowWizard: string | null
    isRecording,            \* WorkflowWizard: microphone is recording
    inflight,               \* requests sent to the capability, not yet settled
    calls,                  \* history: number of requests sent so far
    ev,                     \* history: the last event handled
    isOpen,                 \* FlowAIAssistant: the chat panel is shown
    messages,               \* FlowAIAssistant: sequence of ChatMessage
    input,                  \* FlowAIAssistant: the chat input
    chatLoading,            \* FlowAIAssistant: its loading flag
    chatInflight            \* chat calls sent, not yet settled

vars == <<workflows, view, activeWorkflowId, session, step, loading, promptText,
          conversationHistory, clarificationQuestion, isRecording, inflight,
          calls, ev, isOpen, messages, input, chatLoading, chatInflight>>

chatVars == <<isOpen, messages, input, chatLoading, chatInflight>>

appVars == <<workflows, view, activeWorkflowId, session>>
wizardVars == <<step, loading, promptText, conversationHistory,
                clarificationQuestion, isRecording>>

----------------------------------------------------------------------------
(* Bounds *)

MaxCalls == 3
MaxSessions == 2
\* sends of the chat assistant
MaxSends == 2

----------------------------------------------------------------------------
(* types.ts *)

Describe == 0
Review == 1
Deploy == 2

Draft == "Draft"
Generated == "Generated"
Deployed == "Deployed"

Null == [isNull |-> TRUE]
Some(v) == [isNull |-> FALSE, val |-> v]

Undefined == "undefined"

----------------------------------------------------------------------------
(* JavaScript string operations used by the handlers *)

RECURSIVE TrimStart(_)
TrimStart(s) ==
    IF s = <<>> THEN <<>>
    ELSE IF Head(s) = " " THEN TrimStart(Tail(s)) ELSE s

RECURSIVE TrimEnd(_)
TrimEnd(s) ==
    IF s = <<>> THEN <<>>
    ELSE IF s[Len(s)] = " " THEN TrimEnd(SubSeq(s, 1, Len(s) - 1)) ELSE s

Trim(s) == TrimEnd(TrimStart(s))

RECURSIVE Join(_, _)
Join(texts, sep) ==
    IF texts = <<>> THEN <<>>
    ELSE IF Len(texts) = 1 THEN texts[1]
    ELSE texts[1] \o sep \o Join(Tail(texts), sep)

RECURSIVE RemoveAll(_, _)
RemoveAll(s, c) ==
    IF s = <<>> THEN <<>>
    ELSE IF Head(s) = c THEN RemoveAll(Tail(s), c)
    ELSE <<Head(s)>> \o RemoveAll(Tail(s), c)

RemoveAt(s, i) == SubSeq(s, 1, i - 1) \o SubSeq(s, i + 1, Len(s))

MapTexts(history) == [k \in 1..Len(history) |-> history[k].text]

----------------------------------------------------------------------------
(* Values the user and the capability can supply *)

TypedTexts == { <<" ">>, <<"a">> }

Step1 == [id |-> "1", action |-> "poll", service |-> "Gmail"]
Step2 == [id |-> "2", action |-> "append", service |-> "Sheets"]
Plan1 == [name |-> "n1", description |-> "d1", steps |-> <<Step1>>]
Plan2 == [name |-> "n2", description |-> "d2", steps |-> <<Step2, Step1>>]
PlanNoName == [name |-> Undefined, description |-> "d3", steps |-> <<Step1>>]
Step3 == [id |-> "1", action |-> "notify", service |-> "Gmail"]
PlanSameIds == [name |-> "n4", description |-> "d4", steps |-> <<Step1, Step3>>]
Response(tag, isValid, question, plan, text) ==
    [tag |-> tag, isValid |-> isValid, question |-> question, plan |-> plan,
     text |-> text]

NoResp == Response("none", Undefined, Null, Null, <<>>)
Rejected == Response("reject", Undefined, Null, Null, <<>>)
NoText == Response("undefined", Undefined, Null, Null, <<>>)
Garbage == Response("garbage", Undefined, Null, Null, <<>>)
Json(isValid, question, plan) == Response("json", isValid, question, plan, <<>>)
Text(t) == Response("text", Undefined, Null, Null, t)

\* what ai.models.generateContent can settle with for a plan request: a
\* rejection, no text, text that is not JSON, and JSON objects of the shapes
\* the response schema allows and of the shapes that violate it
PlanResponses ==
    { Rejected, NoText, Garbage,
      Json("true", Null, Some(Plan1)),
      Json("true", Null, Some(Plan2)),
      Json("true", Null, Some(PlanNoName)),
      Json("true", Null, Some(PlanSameIds)),
      Json("true", Some(<<"q">>), Null),
      Json("true", Null, Null),
      Json("false", Some(<<"q">>), Null),
      Json("false", Some(<<"r">>), Null),
      Json("false", Null, Null),
      Json(Undefined, Some(<<"q">>), Null) }

\* ... for a script request ("#" stands for a markdown code fence)
ScriptResponses ==
    {Rejected, NoText} \cup
    { Text(t) : t \in { <<"#", "c", "#", " ">>, <<"#", "#">> } }

\* ... for a transcription request
TranscriptResponses ==
    {Rejected, NoText, Text(<<"t">>)}

----------------------------------------------------------------------------
(* App.tsx *)

NewWorkflow(id) ==
    [id |-> id, name |-> "", description |-> "", prompt |-> <<>>,
     plan |-> Null, script |-> Null, status |-> Draft, createdAt |-> id]

\* faulty variant: adds the updated workflow when no entry has its id
HandleUpdateWorkflow_Upsert(list, updated) ==
    IF \E k \in 1..Len(list) : list[k].id = updated.id
    THEN [k \in 1..Len(list) |-> IF list[k].id = updated.id THEN updated ELSE list[k]]
    ELSE Append(list, updated)

HandleUpdateWorkflow(list, updated) ==
    [k \in 1..Len(list) |-> IF list[k].id = updated.id THEN updated ELSE list[k]]

HasWorkflow(id) == \E k \in 1..Len(workflows) : workflows[k].id = id

ActiveWorkflow ==
    LET k == CHOOSE k \in 1..Len(workflows) :
                 /\ workflows[k].id = activeWorkflowId
                 /\ \A j \in 1..(k - 1) : workflows[j].id # activeWorkflowId
    IN workflows[k]

\* the WorkflowWizard element is rendered
Mounted == view = "wizard" /\ HasWorkflow(activeWorkflowId)

----------------------------------------------------------------------------
(* WorkflowWizard: pure parts *)

TruthyText(o) == o # Null /\ o.val # <<>>

\* faulty variant: takes the prompt, not the plan, as the sign of a plan
InitialStep_ByPrompt(wf) ==
    IF TruthyText(wf.script) THEN Deploy
    ELSE IF wf.prompt = <<>> THEN Review
    ELSE Describe

\* faulty variant: looks at the plan first, at the script only under a plan
InitialStep_PlanFirst(wf) ==
    IF wf.plan = Null THEN Describe
    ELSE IF TruthyText(wf.script) THEN Deploy
    ELSE Review

InitialStep(wf) ==
    IF TruthyText(wf.script) THEN Deploy
    ELSE IF wf.plan # Null THEN Review
    ELSE Describe

\* faulty variant: tests the text without trimming it
IsBlank_NoTrim(text) == text = <<>>

IsBlank(text) == Trim(text) = <<>>

HistoryStr(history) ==
    [k \in 1..Len(history) |->
        [label |-> IF history[k].role = "user" THEN "User" ELSE "AI",
         text |-> history[k].text]]

\* faulty variant: flattens the history without the current utterance
FinalPromptContext_HistoryOnly(history, text) ==
    Join(MapTexts(history), <<" ">>)

\* faulty variant: folds the trimmed utterance into the prompt
FinalPromptContext_Trimmed(history, text) ==
    Join(MapTexts(history \o <<[role |-> "user", text |-> Trim(text)]>>), <<" ">>)

FinalPromptContext(history, text) ==
    Join(MapTexts(history \o <<[role |-> "user", text |-> text]>>), <<" ">>)

\* faulty variant: keeps the workflow's old description
PlanUpdate_OldDescription(wf, history, text, plan) ==
    [wf EXCEPT !.prompt = Join(MapTexts(history \o <<[role |-> "user", text |-> text]>>), <<" ">>),
               !.name = plan.name,
               !.plan = Some(plan),
               !.status = Draft]

\* the object handed to onUpdate when a plan is accepted
PlanUpdate(wf, history, text, plan) ==
    [wf EXCEPT !.prompt = FinalPromptContext(history, text),
               !.name = plan.name,
               !.description = plan.description,
               !.plan = Some(plan),
               !.status = Draft]

\* faulty variant: stores the script and leaves the status as it is
ScriptUpdate_OldStatus(wf, code) == [wf EXCEPT !.script = Some(code)]

\* faulty variant: stores the script and puts the status back to Draft
ScriptUpdate_Regress(wf, code) ==
    [wf EXCEPT !.script = Some(code), !.status = Draft]

\* the object handed to onUpdate when a script is returned
ScriptUpdate(wf, code) ==
    [wf EXCEPT !.script = Some(code), !.status = Generated]

\* faulty variant: records the question before the utterance it answers
NewHistory_QuestionFirst(history, text, question) ==
    history \o <<[role |-> "model", text |-> question],
                 [role |-> "user", text |-> text]>>

NewHistory(history, text, question) ==
    history \o <<[role |-> "user", text |-> text],
                 [role |-> "model", text |-> question]>>

----------------------------------------------------------------------------
(* geminiService.ts: what each function does with the settled response *)

Threw == [threw |-> TRUE, isValid |-> Undefined, question |-> Null,
          plan |-> Null, text |-> <<>>]
Returned(isValid, question, plan, text) ==
    [threw |-> FALSE, isValid |-> isValid, question |-> question,
     plan |-> plan, text |-> text]

\* faulty variant: takes output that is not JSON for a question to the user
GenerateAutomationPlan_GarbageAsked(resp) ==
    CASE resp.tag = "reject" -> Threw
      [] resp.tag = "garbage" -> Returned("false", Some(<<"q">>), Null, <<>>)
      [] resp.tag = "undefined" -> Returned(Undefined, Null, Null, <<>>)
      [] resp.tag = "json" -> Returned(resp.isValid, resp.question, resp.plan, <<>>)

GenerateAutomationPlan(resp) ==
    CASE resp.tag = "reject" -> Threw
      [] resp.tag = "garbage" -> Threw
      [] resp.tag = "undefined" -> Returned(Undefined, Null, Null, <<>>)
      [] resp.tag = "json" -> Returned(resp.isValid, resp.question, resp.plan, <<>>)

GenerateScript(resp) ==
    CASE resp.tag = "reject" -> Threw
      [] resp.tag = "undefined" -> Returned(Undefined, Null, Null, <<>>)
      [] resp.tag = "text" ->
            Returned(Undefined, Null, Null, Trim(RemoveAll(resp.text, "#")))

TranscribeAudio(resp) ==
    CASE resp.tag = "reject" -> Threw
      [] resp.tag = "undefined" -> Returned(Undefined, Null, Null, <<>>)
      [] resp.tag = "text" -> Returned(Undefined, Null, Null, resp.text)

----------------------------------------------------------------------------
(* Requests in flight *)

NoReq == [kind |-> "none"]

\* wf, hist and text are the values the handler's closure holds; userPrompt
\* and history are the arguments sent; pending and retry are history fields:
\* the clarification question that was pending when the handler was called,
\* and whether it was called right after a failed attempt
PlanRequest(sid, wf, history, text, pending, retry) ==
    [kind |-> "plan", sid |-> sid, wf |-> wf, hist |-> history, text |-> text,
     userPrompt |-> text, history |-> HistoryStr(history),
     pending |-> pending, retry |-> retry]

ScriptRequest(sid, wf) ==
    [kind |-> "script", sid |-> sid, wf |-> wf,
     plan |-> wf.plan.val, originalPrompt |-> wf.prompt]

TranscribeRequest(sid) == [kind |-> "transcribe", sid |-> sid]

\* threw: the handler's promise was rejected (an exception left the handler)
Event(op, req, resp, threw) ==
    [op |-> op, req |-> req, resp |-> resp, threw |-> threw]

\* the continuation of a request of wizard instance sid still has a component
\* to set state on
\* faulty variant: takes the wizard that sent the request for an unmounted one
Alive_Unmounted(sid) == Mounted /\ sid # session

Alive(sid) == Mounted /\ sid = session

\* the capability rejected the plan request or its output is not JSON
FailedAttempt(e) == e.op = "planDone" /\ e.resp.tag \in {"reject", "garbage"}

----------------------------------------------------------------------------
(* WorkflowWizard: event handlers *)

\* textarea onChange
ChangePromptText(v) ==
    /\ UNCHANGED chatVars
    /\ Mounted /\ step = Describe
    /\ promptText' = v
    /\ ev' = Event("type", NoReq, NoResp, FALSE)
    /\ UNCHANGED <<appVars, step, loading, conversationHistory,
                   clarificationQuestion, isRecording, inflight, calls>>

HandleGeneratePlan ==
    /\ UNCHANGED chatVars
    /\ Mounted /\ step = Describe /\ ~loading
    /\ IF IsBlank(promptText)
         THEN /\ ev' = Event("submit", NoReq, NoResp, FALSE)
              /\ UNCHANGED <<appVars, wizardVars, inflight, calls>>
         ELSE LET req == PlanRequest(session, ActiveWorkflow,
                                     conversationHistory, promptText,
                                     clarificationQuestion, FailedAttempt(ev))
              IN /\ calls < MaxCalls
                 /\ loading' = TRUE
                 /\ clarificationQuestion' = Null
                 /\ inflight' = Append(inflight, req)
                 /\ calls' = calls + 1
                 /\ ev' = Event("submit", req, NoResp, FALSE)
                 /\ UNCHANGED <<appVars, step, promptText,
                                conversationHistory, isRecording>>

PlanDone(i, resp) ==
    /\ UNCHANGED chatVars
    /\ i \in 1..Len(inflight)
    /\ inflight[i].kind = "plan"
    /\ resp \in PlanResponses
    /\ LET req == inflight[i]
           result == GenerateAutomationPlan(resp)
           alive == Alive(req.sid)
       IN /\ inflight' = RemoveAt(inflight, i)
          /\ ev' = Event("planDone", req, resp, result.threw)
          /\ loading' = IF alive THEN FALSE ELSE loading
          /\ IF result.threw
               THEN UNCHANGED <<workflows, step, promptText,
                                conversationHistory, clarificationQuestion>>
             ELSE IF result.isValid = "true" /\ result.plan # Null
               THEN /\ workflows' = HandleUpdateWorkflow(workflows,
                          PlanUpdate(req.wf, req.hist, req.text,
                                     result.plan.val))
                    /\ step' = IF alive THEN Review ELSE step
                    /\ UNCHANGED <<promptText, conversationHistory,
                                   clarificationQuestion>>
             ELSE IF TruthyText(result.question)
               THEN /\ conversationHistory' =
                          IF alive
                          THEN NewHistory(req.hist, req.text, result.question.val)
                          ELSE conversationHistory
                    /\ clarificationQuestion' =
                          IF alive THEN result.question ELSE clarificationQuestion
                    /\ promptText' = IF alive THEN <<>> ELSE promptText
                    /\ UNCHANGED <<workflows, step>>
             ELSE UNCHANGED <<workflows, step, promptText,
                              conversationHistory, clarificationQuestion>>
          /\ UNCHANGED <<view, activeWorkflowId, session, isRecording, calls>>

\* Review: "Refine Instructions" button
RefineInstructions ==
    /\ UNCHANGED chatVars
    /\ Mounted /\ step = Review /\ ActiveWorkflow.plan # Null
    /\ step' = Describe
    /\ ev' = Event("refine", NoReq, NoResp, FALSE)
    /\ UNCHANGED <<appVars, loading, promptText, conversationHistory,
                   clarificationQuestion, isRecording, inflight, calls>>

\* Review: "Generate Script" button
HandleGenerateScript ==
    /\ UNCHANGED chatVars
    /\ Mounted /\ step = Review /\ ActiveWorkflow.plan # Null /\ ~loading
    /\ IF ActiveWorkflow.plan = Null
         THEN /\ ev' = Event("synthesize", NoReq, NoResp, FALSE)
              /\ UNCHANGED <<appVars, wizardVars, inflight, calls>>
         ELSE LET req == ScriptRequest(session, ActiveWorkflow)
              IN /\ calls < MaxCalls
                 /\ loading' = TRUE
                 /\ inflight' = Append(inflight, req)
                 /\ calls' = calls + 1
                 /\ ev' = Event("synthesize", req, NoResp, FALSE)
                 /\ UNCHANGED <<appVars, step, promptText, conversationHistory,
                                clarificationQuestion, isRecording>>

ScriptDone(i, resp) ==
    /\ UNCHANGED chatVars
    /\ i \in 1..Len(inflight)
    /\ inflight[i].kind = "script"
    /\ resp \in ScriptResponses
    /\ LET req == inflight[i]
           result == GenerateScript(resp)
           alive == Alive(req.sid)
       IN /\ inflight' = RemoveAt(inflight, i)
          /\ ev' = Event("scriptDone", req, resp, result.threw)
          /\ loading' = IF alive THEN FALSE ELSE loading
          /\ IF result.threw
               THEN UNCHANGED <<workflows, step>>
               ELSE /\ workflows' = HandleUpdateWorkflow(workflows,
                          ScriptUpdate(req.wf, result.text))
                    /\ step' = IF alive THEN Deploy ELSE step
          /\ UNCHANGED <<view, activeWorkflowId, session, promptText,
                         conversationHistory, clarificationQuestion,
                         isRecording, calls>>

\* Describe: microphone button while not recording
HandleStartRecording ==
    /\ UNCHANGED chatVars
    /\ Mounted /\ step = Describe /\ ~isRecording
    /\ calls < MaxCalls
    /\ isRecording' = TRUE
    /\ ev' = Event("startRecording", NoReq, NoResp, FALSE)
    /\ UNCHANGED <<appVars, step, loading, promptText, conversationHistory,
                   clarificationQuestion, inflight, calls>>

\* Describe: microphone button while recording; the recorder's onstop
\* handler runs up to its await
HandleStopRecording ==
    /\ UNCHANGED chatVars
    /\ Mounted /\ step = Describe /\ isRecording
    /\ calls < MaxCalls
    /\ isRecording' = FALSE
    /\ loading' = TRUE
    /\ inflight' = Append(inflight, TranscribeRequest(session))
    /\ calls' = calls + 1
    /\ ev' = Event("stopRecording", TranscribeRequest(session), NoResp, FALSE)
    /\ UNCHANGED <<appVars, step, promptText, conversationHistory,
                   clarificationQuestion>>

TranscribeDone(i, resp) ==
    /\ UNCHANGED chatVars
    /\ i \in 1..Len(inflight)
    /\ inflight[i].kind = "transcribe"
    /\ resp \in TranscriptResponses
    /\ LET req == inflight[i]
           result == TranscribeAudio(resp)
           alive == Alive(req.sid)
       IN /\ inflight' = RemoveAt(inflight, i)
          /\ ev' = Event("transcribeDone", req, resp, result.threw)
          /\ loading' = IF alive THEN FALSE ELSE loading
          /\ promptText' =
                IF result.threw \/ ~alive THEN promptText
                ELSE IF promptText # <<>>
                     THEN promptText \o <<" ">> \o result.text
                     ELSE result.text
          /\ UNCHANGED <<appVars, step, conversationHistory,
                         clarificationQuestion, isRecording, calls>>

----------------------------------------------------------------------------
(* FlowAIAssistant: pure parts, and chatWithFlowAI of geminiService.ts *)

ChatMessage(role, text, isError) ==
    [role |-> role, text |-> text, isError |-> isError]

\* the message the chat starts with
Greeting == ChatMessage("model", <<"h">>, FALSE)

\* "Error occurred.", what chatWithFlowAI returns for a reply without text
ErrorOccurred == <<"e">>

\* "I encountered an error. Please try again.", the text of the error message
TryAgain == <<"t">>

\* history: messages.map(m => ({ role, parts: [{ text }] }))
ChatHistory(msgs) ==
    [k \in 1..Len(msgs) |-> [role |-> msgs[k].role, parts |-> <<msgs[k].text>>]]

\* msgs is the list the closure of handleSend holds, message is userMsg.text
ChatRequest(msgs, message) ==
    [kind |-> "chat", msgs |-> msgs, history |-> ChatHistory(msgs),
     message |-> message]

ChatWithFlowAI(resp) ==
    CASE resp.tag = "reject" -> Threw
      [] resp.tag = "undefined" -> Returned(Undefined, Null, Null, ErrorOccurred)
      [] resp.tag = "text" ->
            Returned(Undefined, Null, Null,
                     IF resp.text # <<>> THEN resp.text ELSE ErrorOccurred)

\* the message handleSend appends when its call has settled
ReplyMessage(result) ==
    IF result.threw THEN ChatMessage("model", TryAgain, TRUE)
    ELSE ChatMessage("model", result.text, FALSE)

----------------------------------------------------------------------------
\* the workflows a wizard can be opened on: a new one (handleCreateNew) and
\* one that an earlier wizard left planned or generated, with a script or
\* with the empty script of an empty completion (handleSelectWorkflow)
OpenedWorkflows ==
    { NewWorkflow(1),
      [NewWorkflow(1) EXCEPT !.name = "n1", !.description = "d1",
                             !.prompt = <<"a">>, !.plan = Some(Plan1)],
      [NewWorkflow(1) EXCEPT !.name = "n1", !.description = "d1",
                             !.prompt = <<"a">>, !.plan = Some(Plan1),
                             !.script = Some(<<"c">>), !.status = Generated],
      [NewWorkflow(1) EXCEPT !.name = "n1", !.description = "d1",
                             !.prompt = <<"a">>, !.plan = Some(Plan1),
                             !.script = Some(<<>>), !.status = Generated] }

Init ==
    /\ \E wf \in OpenedWorkflows :
          /\ workflows = <<wf>>
          /\ step = InitialStep(wf)
          /\ promptText = wf.prompt
    /\ view = "wizard"
    /\ activeWorkflowId = 1
    /\ session = 1
    /\ loading = FALSE
    /\ conversationHistory = <<>>
    /\ clarificationQuestion = Null
    /\ isRecording = FALSE
    /\ inflight = <<>>
    /\ calls = 0
    /\ ev = Event("mount", NoReq, NoResp, FALSE)
    /\ isOpen = FALSE
    /\ messages = <<Greeting>>
    /\ input = <<>>
    /\ chatLoading = FALSE
    /\ chatInflight = <<>>

TypeInto == \E v \in TypedTexts : ChangePromptText(v)
PlanSettles == \E i \in 1..Len(inflight), resp \in PlanResponses : PlanDone(i, resp)
ScriptSettles ==
    \E i \in 1..Len(inflight), resp \in ScriptResponses : ScriptDone(i, resp)
TranscriptionSettles ==
    \E i \in 1..Len(inflight), resp \in TranscriptResponses :
        TranscribeDone(i, resp)

Next ==
    \/ TypeInto
    \/ HandleGeneratePlan
    \/ PlanSettles
    \/ RefineInstructions
    \/ HandleGenerateScript
    \/ ScriptSettles
    \/ HandleStartRecording
    \/ HandleStopRecording
    \/ TranscriptionSettles

Spec == Init /\ [][Next]_vars

----------------------------------------------------------------------------
(* App.tsx: opening the wizard on a stored workflow and closing it *)

NoId == 0

\* what the store can hold when the application starts: the list that the
\* load effect parses from localStorage
StoredWorkflows ==
    { [NewWorkflow(1) EXCEPT !.name = n, !.prompt = p, !.plan = pl,
                             !.script = sc, !.status = st] :
        n \in {"", "n1"},
        p \in { <<>>, <<"a">>, <<"a", " ", "q">> },
        pl \in {Null, Some(Plan1), Some(Plan2)},
        sc \in {Null, Some(<<>>), Some(<<"c">>)},
        st \in {Draft, Generated, Deployed} }

\* Dashboard card click; the WorkflowWizard element mounts with the initial
\* values of its useState hooks
HandleSelectWorkflow(id) ==
    /\ UNCHANGED chatVars
    /\ view = "dashboard" /\ HasWorkflow(id)
    /\ session < MaxSessions
    /\ activeWorkflowId' = id
    /\ view' = "wizard"
    /\ session' = session + 1
    /\ LET wf == CHOOSE w \in {workflows[k] : k \in 1..Len(workflows)} : w.id = id
       IN /\ step' = InitialStep(wf)
          /\ promptText' = wf.prompt
    /\ loading' = FALSE
    /\ conversationHistory' = <<>>
    /\ clarificationQuestion' = Null
    /\ isRecording' = FALSE
    /\ ev' = Event("mount", NoReq, NoResp, FALSE)
    /\ UNCHANGED <<workflows, inflight, calls>>

\* onClose; the WorkflowWizard element unmounts and its state is discarded
HandleCloseWizard ==
    /\ UNCHANGED chatVars
    /\ Mounted
    /\ view' = "dashboard"
    /\ activeWorkflowId' = NoId
    /\ step' = Describe
    /\ loading' = FALSE
    /\ promptText' = <<>>
    /\ conversationHistory' = <<>>
    /\ clarificationQuestion' = Null
    /\ isRecording' = FALSE
    /\ ev' = Event("close", NoReq, NoResp, FALSE)
    /\ UNCHANGED <<workflows, session, inflight, calls>>

InitOpen ==
    /\ \E wf \in StoredWorkflows : workflows = <<wf>>
    /\ view = "dashboard"
    /\ activeWorkflowId = NoId
    /\ session = 0
    /\ step = Describe
    /\ loading = FALSE
    /\ promptText = <<>>
    /\ conversationHistory = <<>>
    /\ clarificationQuestion = Null
    /\ isRecording = FALSE
    /\ inflight = <<>>
    /\ calls = 0
    /\ ev = Event("load", NoReq, NoResp, FALSE)
    /\ isOpen = FALSE
    /\ messages = <<Greeting>>
    /\ input = <<>>
    /\ chatLoading = FALSE
    /\ chatInflight = <<>>

SelectWorkflow == \E id \in {1} : HandleSelectWorkflow(id)

NextOpen ==
    \/ SelectWorkflow
    \/ HandleCloseWizard

SpecOpen == InitOpen /\ [][NextOpen]_vars

----------------------------------------------------------------------------
(* The synthesis handler as an operation: handleGenerateScript called on the
   mounted wizard whichever view is displayed. The Review view renders its
   button only under a plan, so the Spec above never runs the handler's
   first line with the plan absent. *)

RequestSynthesis ==
    /\ UNCHANGED chatVars
    /\ Mounted
    /\ IF ActiveWorkflow.plan = Null
         THEN /\ ev' = Event("synthesize", NoReq, NoResp, FALSE)
              /\ UNCHANGED <<appVars, wizardVars, inflight, calls>>
         ELSE LET req == ScriptRequest(session, ActiveWorkflow)
              IN /\ calls < MaxCalls
                 /\ loading' = TRUE
                 /\ inflight' = Append(inflight, req)
                 /\ calls' = calls + 1
                 /\ ev' = Event("synthesize", req, NoResp, FALSE)
                 /\ UNCHANGED <<appVars, step, promptText, conversationHistory,
                                clarificationQuestion, isRecording>>

NextCall ==
    \/ SelectWorkflow
    \/ RequestSynthesis
    \/ ScriptSettles

SpecCall == InitOpen /\ [][NextCall]_vars

----------------------------------------------------------------------------
(* App.tsx: the application around the wizard. Workflows are created,
   selected and deleted on the dashboard; the sidebar changes the view. The
   id of a new workflow (crypto.randomUUID) is a number no workflow had
   before: the number of the wizard instance that opens on it. *)

\* the initial values of the WorkflowWizard's useState hooks, which is also
\* what is left when the element is not rendered
WizardUnmounted ==
    /\ step' = Describe
    /\ loading' = FALSE
    /\ promptText' = <<>>
    /\ conversationHistory' = <<>>
    /\ clarificationQuestion' = Null
    /\ isRecording' = FALSE

HandleCreateNew ==
    /\ UNCHANGED chatVars
    /\ view = "dashboard"
    /\ session < MaxSessions
    /\ LET newWorkflow == NewWorkflow(session + 1)
       IN /\ workflows' = <<newWorkflow>> \o workflows
          /\ activeWorkflowId' = newWorkflow.id
          /\ step' = InitialStep(newWorkflow)
          /\ promptText' = newWorkflow.prompt
    /\ view' = "wizard"
    /\ session' = session + 1
    /\ loading' = FALSE
    /\ conversationHistory' = <<>>
    /\ clarificationQuestion' = Null
    /\ isRecording' = FALSE
    /\ ev' = Event("create", NoReq, NoResp, FALSE)
    /\ UNCHANGED <<inflight, calls>>

\* faulty variant: deletion is offered in every view
HandleDeleteWorkflow_AnyView(id) ==
    /\ UNCHANGED chatVars
    /\ HasWorkflow(id)
    /\ workflows' = SelectSeq(workflows, LAMBDA w : w.id # id)
    /\ ev' = Event("delete", NoReq, NoResp, FALSE)
    /\ UNCHANGED <<view, activeWorkflowId, session, wizardVars, inflight, calls>>

HandleDeleteWorkflow(id) ==
    /\ UNCHANGED chatVars
    /\ view = "dashboard" /\ HasWorkflow(id)
    /\ workflows' = SelectSeq(workflows, LAMBDA w : w.id # id)
    /\ ev' = Event("delete", NoReq, NoResp, FALSE)
    /\ UNCHANGED <<view, activeWorkflowId, session, wizardVars, inflight, calls>>

\* sidebar Home (the confirm dialog answered with OK when the wizard is shown)
SidebarHome ==
    /\ UNCHANGED chatVars
    /\ view' = "dashboard"
    /\ WizardUnmounted
    /\ ev' = Event("home", NoReq, NoResp, FALSE)
    /\ UNCHANGED <<workflows, activeWorkflowId, session, inflight, calls>>

\* sidebar Settings (the confirm dialog answered with OK when the wizard is
\* shown)
SidebarSettings ==
    /\ UNCHANGED chatVars
    /\ view' = "settings"
    /\ WizardUnmounted
    /\ ev' = Event("settings", NoReq, NoResp, FALSE)
    /\ UNCHANGED <<workflows, activeWorkflowId, session, inflight, calls>>

InitApp ==
    /\ workflows = <<>>
    /\ view = "dashboard"
    /\ activeWorkflowId = NoId
    /\ session = 0
    /\ step = Describe
    /\ loading = FALSE
    /\ promptText = <<>>
    /\ conversationHistory = <<>>
    /\ clarificationQuestion = Null
    /\ isRecording = FALSE
    /\ inflight = <<>>
    /\ calls = 0
    /\ ev = Event("load", NoReq, NoResp, FALSE)
    /\ isOpen = FALSE
    /\ messages = <<Greeting>>
    /\ input = <<>>
    /\ chatLoading = FALSE
    /\ chatInflight = <<>>

WorkflowIds == {workflows[k].id : k \in 1..Len(workflows)}

SelectAny == \E id \in WorkflowIds : HandleSelectWorkflow(id)
DeleteAny == \E id \in WorkflowIds : HandleDeleteWorkflow(id)

\* the user types one text, and the capability rejects, asks, or returns
\* one of two plans or a script
AppTypeInto == ChangePromptText(<<"a">>)
AppPlanSettles ==
    \E i \in 1..Len(inflight),
       resp \in { Rejected, Json("true", Null, Some(Plan1)),
                  Json("true", Null, Some(Plan2)),
                  Json("false", Some(<<"q">>), Null) } : PlanDone(i, resp)
AppScriptSettles ==
    \E i \in 1..Len(inflight),
       resp \in { Rejected, Text(<<"#", "c", "#", " ">>) } : ScriptDone(i, resp)

NextApp ==
    \/ HandleCreateNew
    \/ SelectAny
    \/ DeleteAny
    \/ HandleCloseWizard
    \/ SidebarHome
    \/ SidebarSettings
    \/ AppTypeInto
    \/ HandleGeneratePlan
    \/ AppPlanSettles
    \/ RefineInstructions
    \/ HandleGenerateScript
    \/ AppScriptSettles

SpecApp == InitApp /\ [][NextApp]_vars

----------------------------------------------------------------------------
(* The wizard session when every call to the capability eventually resolves
   or fails: the settling of a request in flight is weakly fair. *)

NextLive ==
    \/ TypeInto
    \/ HandleGeneratePlan
    \/ AppPlanSettles
    \/ RefineInstructions
    \/ HandleGenerateScript
    \/ AppScriptSettles
    \/ HandleStartRecording
    \/ HandleStopRecording
    \/ TranscriptionSettles

SpecLive ==
    /\ Init
    /\ [][NextLive]_vars
    /\ WF_vars(AppPlanSettles)
    /\ WF_vars(AppScriptSettles)
    /\ WF_vars(TranscriptionSettles)

----------------------------------------------------------------------------
(* FlowAIAssistant: the chat panel. The component is rendered by App for the
   whole life of the page, so none of its continuations is ever orphaned.
   The Enter key calls handleSend whatever the loading flag says; the send
   button, disabled while loading or on a blank input, reaches no state the
   key does not. *)

ChatTexts == { <<" ">>, <<"a">>, <<"b">> }

ChatResponses == { Rejected, NoText, Text(<<>>), Text(<<"r">>) }

\* the launcher button, the header's close button, a click outside the panel
SetIsOpen(v) ==
    /\ v \in BOOLEAN
    /\ v # isOpen
    /\ isOpen' = v
    /\ ev' = Event("setIsOpen", NoReq, NoResp, FALSE)
    /\ UNCHANGED <<appVars, wizardVars, inflight, calls, messages, input,
                   chatLoading, chatInflight>>

ChangeInput(v) ==
    /\ isOpen
    /\ v \in ChatTexts
    /\ input' = v
    /\ ev' = Event("changeInput", NoReq, NoResp, FALSE)
    /\ UNCHANGED <<appVars, wizardVars, inflight, calls, isOpen, messages,
                   chatLoading, chatInflight>>

\* handleSend up to its await; req.message is the input it was called with
HandleSend ==
    /\ isOpen
    /\ calls < MaxSends
    /\ IF IsBlank(input)
       THEN /\ ev' = Event("handleSend", ChatRequest(messages, input), NoResp,
                           FALSE)
            /\ UNCHANGED <<messages, input, chatLoading, chatInflight, calls>>
       ELSE LET userMsg == ChatMessage("user", input, FALSE)
                req == ChatRequest(messages, userMsg.text)
            IN /\ messages' = Append(messages, userMsg)
               /\ input' = <<>>
               /\ chatLoading' = TRUE
               /\ chatInflight' = Append(chatInflight, req)
               /\ calls' = calls + 1
               /\ ev' = Event("handleSend", req, NoResp, FALSE)
    /\ UNCHANGED <<appVars, wizardVars, inflight, isOpen>>

\* faulty variant: writes the list the closure holds, not the current one
SendDone_Stale(i, resp) ==
    /\ i \in 1..Len(chatInflight)
    /\ resp \in ChatResponses
    /\ LET req == chatInflight[i]
           result == ChatWithFlowAI(resp)
       IN /\ chatInflight' = RemoveAt(chatInflight, i)
          /\ messages' = req.msgs \o <<ChatMessage("user", req.message, FALSE),
                                       ReplyMessage(result)>>
          /\ chatLoading' = FALSE
          /\ ev' = Event("sendDone", req, resp, FALSE)
    /\ UNCHANGED <<appVars, wizardVars, inflight, calls, isOpen, input>>

\* handleSend after its await: try, catch and finally
SendDone(i, resp) ==
    /\ i \in 1..Len(chatInflight)
    /\ resp \in ChatResponses
    /\ LET req == chatInflight[i]
           result == ChatWithFlowAI(resp)
       IN /\ chatInflight' = RemoveAt(chatInflight, i)
          /\ messages' = Append(messages, ReplyMessage(result))
          /\ chatLoading' = FALSE
          /\ ev' = Event("sendDone", req, resp, FALSE)
    /\ UNCHANGED <<appVars, wizardVars, inflight, calls, isOpen, input>>

InitChat == InitApp

ToggleChat == \E v \in BOOLEAN : SetIsOpen(v)
TypeIntoChat == \E v \in ChatTexts : ChangeInput(v)
ChatSettles ==
    \E i \in 1..Len(chatInflight), resp \in ChatResponses : SendDone(i, resp)

NextChat ==
    \/ ToggleChat
    \/ TypeIntoChat
    \/ HandleSend
    \/ ChatSettles

\* every call to the chat capability eventually resolves or is rejected
SpecChat ==
    /\ InitChat
    /\ [][NextChat]_vars
    /\ WF_vars(ChatSettles)

----------------------------------------------------------------------------
(* Properties *)

\* the record the store holds for the workflow the wizard was opened on
Stored == ActiveWorkflow

UserTurn(text) == [role |-> "user", text |-> text]
ModelTurn(text) == [role |-> "model", text |-> text]

\* shapes of the capability's answer to a plan request
AnswersClarification(resp) ==
    /\ resp.tag = "json" /\ resp.isValid = "false"
    /\ resp.question # Null /\ resp.question.val # <<>>
    /\ resp.plan = Null

AnswersPlan(resp) ==
    resp.tag = "json" /\ resp.isValid = "true" /\ resp.plan # Null

\* C1: when the capability answers a submitted utterance with isValid false
\* and a non-empty question, then after the request resolves the step is
\* still Describe, the conversation has gained exactly the user's utterance
\* and the assistant's question, that question is pending, the input buffer
\* is empty and the stored Workflow is unchanged.
C1_ClarificationRecorded ==
    [][ (ev'.op = "planDone" /\ AnswersClarification(ev'.resp)) =>
            /\ step' = Describe
            /\ conversationHistory' =
                  conversationHistory \o
                     <<UserTurn(ev'.req.text), ModelTurn(ev'.resp.question.val)>>
            /\ clarificationQuestion' = ev'.resp.question
            /\ promptText' = <<>>
            /\ workflows' = workflows ]_vars

\* C2: when the capability answers a submitted utterance with isValid true
\* and a plan, then after the request resolves the Workflow's plan is the
\* returned plan, its name and description are the plan's, its status is
\* Draft, its id and createdAt are unchanged and the step is Review.
C2_AcceptedPlanStored ==
    [][ (ev'.op = "planDone" /\ AnswersPlan(ev'.resp)) =>
            /\ Stored'.plan = ev'.resp.plan
            /\ Stored'.plan.val.steps = ev'.resp.plan.val.steps
            /\ Stored'.name = ev'.resp.plan.val.name
            /\ Stored'.description = ev'.resp.plan.val.description
            /\ Stored'.status = Draft
            /\ Stored'.id = Stored.id
            /\ Stored'.createdAt = Stored.createdAt
            /\ step' = Review ]_vars

C2_Witness ==
    /\ ev.op = "planDone" /\ ev.resp = Json("true", Null, Some(Plan2))
    /\ ev.req.text = <<"a">>
    /\ step = Review
    /\ Stored.plan = Some(Plan2) /\ Stored.name = "n2"

\* the texts of the user turns of a conversation, in order
RECURSIVE UserTexts(_)
UserTexts(history) ==
    IF history = <<>> THEN <<>>
    ELSE IF Head(history).role = "user"
         THEN <<Head(history).text>> \o UserTexts(Tail(history))
         ELSE UserTexts(Tail(history))

\* the texts of s, each followed by a space, the last one excepted
RECURSIVE SpaceSeparated(_)
SpaceSeparated(texts) ==
    IF Len(texts) = 0 THEN <<>>
    ELSE SpaceSeparated(SubSeq(texts, 1, Len(texts) - 1))
           \o (IF Len(texts) > 1 THEN <<" ">> ELSE <<>>)
           \o texts[Len(texts)]

\* C3 as stated: the prompt persisted on acceptance is made of the user
\* utterances of all turns, in order, the accepting one included, and of
\* nothing else.
C3_PromptIsUserUtterances ==
    [][ (ev'.op = "planDone" /\ AnswersPlan(ev'.resp)) =>
            Stored'.prompt =
                SpaceSeparated(UserTexts(ev'.req.hist) \o <<ev'.req.text>>) ]_vars

\* C3 amended: a submit sends the conversation and input buffer as they are,
\* and the prompt persisted on acceptance is made of the texts of all turns
\* of that conversation, the assistant's questions included, in order,
\* followed by the accepting utterance, separated by single spaces.
C3_PromptIsAllTurns ==
    [][ /\ (ev'.op = "submit" /\ ev'.req # NoReq) =>
              /\ ev'.req.hist = conversationHistory
              /\ ev'.req.text = promptText
        /\ (ev'.op = "planDone" /\ AnswersPlan(ev'.resp)) =>
              Stored'.prompt =
                 SpaceSeparated([k \in 1..Len(ev'.req.hist) |-> ev'.req.hist[k].text]
                                   \o <<ev'.req.text>>) ]_vars

C3_Witness ==
    /\ ev.op = "planDone" /\ AnswersPlan(ev.resp)
    /\ ev.req.hist = <<UserTurn(<<"a">>), ModelTurn(<<"q">>)>>
    /\ ev.req.text = <<"t">>
    /\ Stored.prompt = <<"a", " ", "q", " ", "t">>

\* C4: at most one elicitation or synthesis request is in flight in every
\* reachable state.
InFlightOfKinds(kinds) == {i \in 1..Len(inflight) : inflight[i].kind \in kinds}

C4_OneRequestInFlight ==
    Cardinality(InFlightOfKinds({"plan", "script"})) <= 1

\* C5: when an elicitation attempt fails (undecodable output or transport
\* failure) the conversation, the pending question, the step and the
\* Workflow's plan, script, prompt, name and status are what they were
\* before the submit.
C5_FailureRestoresState ==
    [][ (ev'.op = "planDone" /\ ev'.resp.tag \in {"reject", "garbage"}) =>
            /\ conversationHistory' = ev'.req.hist
            /\ clarificationQuestion' = ev'.req.pending
            /\ step' = Describe
            /\ Stored'.plan = ev'.req.wf.plan
            /\ Stored'.script = ev'.req.wf.script
            /\ Stored'.prompt = ev'.req.wf.prompt
            /\ Stored'.name = ev'.req.wf.name
            /\ Stored'.status = ev'.req.wf.status ]_vars

\* the answer has the shape the response schema describes: isValid, and a
\* non-empty question when it is false, a complete plan when it is true
WellShaped(resp) ==
    /\ resp.tag = "json"
    /\ \/ /\ resp.isValid = "false"
          /\ resp.question # Null /\ resp.question.val # <<>>
       \/ /\ resp.isValid = "true"
          /\ resp.plan # Null
          /\ resp.plan.val.name # Undefined
          /\ resp.plan.val.description # Undefined

\* C6: every answer that violates the expected shape is an error outcome of
\* the attempt: it is not accepted, not recorded and not silently dropped.
C6_ShapeViolationIsError ==
    [][ (ev'.op = "planDone" /\ ev'.resp.tag # "reject" /\ ~WellShaped(ev'.resp)) =>
            /\ ev'.threw
            /\ workflows' = workflows
            /\ conversationHistory' = conversationHistory ]_vars

AllSpaces(text) == \A k \in 1..Len(text) : text[k] = " "

\* C7: submitting an utterance that is empty or whitespace-only sends no
\* request and leaves the conversation, the pending question, the input
\* buffer, the busy flag, the step and the Workflow unchanged.
C7_EmptyInputRejected ==
    [][ (ev'.op = "submit" /\ AllSpaces(promptText)) =>
            /\ inflight' = inflight
            /\ calls' = calls
            /\ conversationHistory' = conversationHistory
            /\ clarificationQuestion' = clarificationQuestion
            /\ promptText' = promptText
            /\ loading' = loading
            /\ step' = step
            /\ workflows' = workflows ]_vars

C7_Witness ==
    /\ ev.op = "submit" /\ ev.req = NoReq
    /\ promptText = <<" ">>
    /\ clarificationQuestion = Some(<<"q">>)
    /\ inflight = <<>>

\* C8: requesting synthesis in Review sends the stored plan and prompt; when
\* the call succeeds the returned script is stored, status becomes Generated
\* and the step becomes Deploy.
C8_SynthesisStoresScript ==
    [][ /\ (ev'.op = "synthesize" /\ step = Review /\ Stored.plan # Null) =>
              /\ inflight' = Append(inflight, ev'.req)
              /\ ev'.req.kind = "script"
              /\ ev'.req.plan = Stored.plan.val
              /\ ev'.req.originalPrompt = Stored.prompt
        /\ (ev'.op = "scriptDone" /\ ~ev'.threw) =>
              /\ Stored'.script = Some(GenerateScript(ev'.resp).text)
              /\ Stored'.status = Generated
              /\ step' = Deploy ]_vars

C8_Witness ==
    /\ ev.op = "scriptDone"
    /\ ev.resp = Text(<<"#", "c", "#", " ">>)
    /\ Stored.script = Some(<<"c">>)
    /\ Stored.status = Generated
    /\ step = Deploy

\* C9: when the code-generation call fails or returns empty content, the
\* step stays as it is and no script is stored: the Workflow keeps its
\* script and status.
C9_EmptyScriptNotStored ==
    [][ (ev'.op = "scriptDone" /\ (ev'.threw \/ GenerateScript(ev'.resp).text = <<>>)) =>
            /\ step' = step
            /\ Stored'.script = Stored.script
            /\ Stored'.status = Stored.status ]_vars

\* the step derived from the stored fields
DerivedStep(wf) ==
    IF wf.script # Null /\ wf.script.val # <<>> THEN Deploy
    ELSE IF wf.plan # Null THEN Review
    ELSE Describe

C11_StepTable ==
    ev.op = "mount" =>
        step = (IF Stored.plan = Null THEN Describe
                ELSE IF Stored.script = Null THEN Review
                ELSE Deploy)

\* C11 amended: the step computed when a wizard opens depends only on
\* (script non-empty, plan present): a non-empty script gives Deploy whether
\* or not a plan is present; with the script absent or empty, a plan gives
\* Review and no plan gives Describe.
C11_StepByScriptThenPlan ==
    ev.op = "mount" =>
        LET scriptNonEmpty == Stored.script # Null /\ Len(Stored.script.val) > 0
            planPresent == Stored.plan # Null
        IN step = CASE scriptNonEmpty -> Deploy
                    [] ~scriptNonEmpty /\ planPresent -> Review
                    [] ~scriptNonEmpty /\ ~planPresent -> Describe

C11_Witness ==
    /\ ev.op = "mount" /\ view = "wizard"
    /\ Stored.plan = Null /\ Stored.script = Some(<<"c">>)
    /\ Stored.status = Deployed
    /\ step = Deploy

\* C12: in every reachable state every Workflow in the store has status
\* Generated if and only if its script is present, and status Draft while
\* its script is absent.
C12_GeneratedIffScript ==
    \A k \in 1..Len(workflows) :
        /\ workflows[k].status = Generated <=> workflows[k].script # Null
        /\ workflows[k].script = Null => workflows[k].status = Draft

\* C13: the refine event in Review moves the wizard to Describe and leaves
\* the Workflow without a script, its plan and prompt unchanged.
C13_RefineDiscardsScript ==
    [][ ev'.op = "refine" =>
            /\ step' = Describe
            /\ Stored'.script = Null
            /\ Stored'.plan = Stored.plan
            /\ Stored'.prompt = Stored.prompt ]_vars

\* C14: once the session's step is Deploy, no event other than close, and no
\* completion of an earlier request, changes the step or the Workflow's
\* plan, script or status.
C14_DeployIsTerminal ==
    [][ (step = Deploy /\ ev'.op # "close") =>
            /\ step' = Deploy
            /\ Stored'.plan = Stored.plan
            /\ Stored'.script = Stored.script
            /\ Stored'.status = Stored.status ]_vars

\* C15: requesting synthesis for a Workflow that has no plan is an error
\* outcome of the request: the handler fails, no request is sent to the
\* capability, and the Workflow, the step and the busy flag are unchanged.
C15_NoPlanIsError ==
    [][ (ev'.op = "synthesize" /\ Stored.plan = Null) =>
            /\ ev'.threw
            /\ inflight' = inflight
            /\ calls' = calls
            /\ workflows' = workflows
            /\ step' = step
            /\ loading' = loading ]_vars

\* C16: a successful synthesis on a Workflow that is already Generated, its
\* plan and prompt unchanged, leaves it Generated with a script; utterances
\* are submitted from the Describe step only, and every step in which the
\* status leaves Generated or the script becomes absent is the acceptance
\* of a plan for such an utterance.
C16_GeneratedIsKept ==
    [][ /\ (/\ ev'.op = "scriptDone" /\ ~ev'.threw
             /\ Stored.status = Generated
             /\ Some(ev'.req.plan) = Stored.plan
             /\ ev'.req.originalPrompt = Stored.prompt) =>
                (Stored'.status = Generated /\ Stored'.script # Null)
        /\ ev'.op = "submit" => step = Describe
        /\ (\/ (Stored.status = Generated /\ Stored'.status # Generated)
             \/ (Stored.script # Null /\ Stored'.script = Null)) =>
                (ev'.op = "planDone" /\ AnswersPlan(ev'.resp)) ]_vars

C16_Witness ==
    /\ ev.op = "scriptDone" /\ ~ev.threw
    /\ ev.req.wf.status = Generated /\ ev.req.wf.script = Some(<<>>)
    /\ Stored.status = Generated /\ Stored.script = Some(<<"c">>)
    /\ Stored.plan = ev.req.wf.plan /\ Stored.prompt = ev.req.wf.prompt

\* C17: a failed elicitation attempt changes nothing a retry reads or a
\* successful attempt produces (conversation, input buffer, Workflow, step);
\* a retry right after it that finds the input of the failed attempt sends
\* the same request; and when the retry is accepted the conversation, the
\* persisted prompt, plan, name, description and the step are those of an
\* accepted attempt made from the state before the failure.
C17_RetryAsIfNoFailure ==
    [][ /\ FailedAttempt(ev') =>
              /\ conversationHistory' = conversationHistory
              /\ promptText' = promptText
              /\ workflows' = workflows
              /\ step' = step
        /\ (/\ FailedAttempt(ev) /\ ev'.op = "submit" /\ ev'.req # NoReq
             /\ promptText = ev.req.text
             /\ conversationHistory = ev.req.hist
             /\ Stored = ev.req.wf) =>
                /\ ev'.req.userPrompt = ev.req.userPrompt
                /\ ev'.req.history = ev.req.history
                /\ ev'.req.wf = ev.req.wf
                /\ conversationHistory' = conversationHistory
                /\ workflows' = workflows
                /\ step' = step
        /\ (ev'.op = "planDone" /\ AnswersPlan(ev'.resp) /\ ev'.req.retry) =>
                /\ conversationHistory' = conversationHistory
                /\ Stored'.prompt =
                      SpaceSeparated([k \in 1..Len(ev'.req.hist) |-> ev'.req.hist[k].text]
                                        \o <<ev'.req.text>>)
                /\ Stored'.plan = ev'.resp.plan
                /\ Stored'.name = ev'.resp.plan.val.name
                /\ Stored'.description = ev'.resp.plan.val.description
                /\ step' = Review ]_vars

C17_Witness ==
    /\ ev.op = "planDone" /\ AnswersPlan(ev.resp) /\ ev.req.retry
    /\ ev.req.pending = Null
    /\ calls = 3
    /\ conversationHistory = <<UserTurn(<<"a">>), ModelTurn(<<"q">>)>>
    /\ conversationHistory = ev.req.hist
    /\ Stored.plan = Some(Plan1)
    /\ Stored.prompt = <<"a", " ", "q", " ", "a">>
    /\ step = Review

IsPrefix(s, t) == Len(s) <= Len(t) /\ SubSeq(t, 1, Len(s)) = s

\* C18: in every step of a wizard session the new conversation has the
\* previous conversation as a prefix: turns are only appended, never
\* changed, dropped or reordered.
C18_ConversationAppendOnly ==
    [][ IsPrefix(conversationHistory, conversationHistory') ]_vars

\* C19: the stored plan changes only when an elicitation is accepted: the
\* completion of a synthesis (success or failure), a clarification turn, a
\* failed elicitation and refine leave the Workflow's plan, name,
\* description and prompt as the store held them.
C19_PlanChangesOnlyOnAccept ==
    [][ (\/ ev'.op \in {"scriptDone", "refine"}
         \/ (ev'.op = "planDone" /\ ~AnswersPlan(ev'.resp))) =>
            /\ Stored'.plan = Stored.plan
            /\ Stored'.name = Stored.name
            /\ Stored'.description = Stored.description
            /\ Stored'.prompt = Stored.prompt ]_vars

\* C20: in every reachable state a pending clarification question implies
\* that the step is Describe, and when a plan is accepted no clarification
\* question remains pending.
C20_PendingQuestionOnlyInDescribe ==
    /\ [](clarificationQuestion # Null => step = Describe)
    /\ [][ (ev'.op = "planDone" /\ AnswersPlan(ev'.resp)) =>
               clarificationQuestion' = Null ]_vars

\* C21: one clarification question at most is pending; in every reachable
\* state a pending question is the last turn of the conversation, an
\* assistant turn with the same text, and an utterance submitted while a
\* question is pending is sent with that question as the last turn of the
\* prior conversation.
C21_PendingQuestionIsLastTurn ==
    /\ [](clarificationQuestion # Null =>
             /\ Len(conversationHistory) > 0
             /\ conversationHistory[Len(conversationHistory)] =
                   ModelTurn(clarificationQuestion.val))
    /\ [][ (ev'.op = "submit" /\ ev'.req # NoReq /\ clarificationQuestion # Null) =>
               /\ Len(ev'.req.history) > 0
               /\ ev'.req.history[Len(ev'.req.history)] =
                     [label |-> "AI", text |-> clarificationQuestion.val]
               /\ ev'.req.userPrompt = promptText ]_vars

C21_Witness ==
    /\ ev.op = "submit" /\ ev.req # NoReq
    /\ ev.req.pending = Some(<<"r">>)
    /\ ev.req.history = <<[label |-> "User", text |-> <<"a">>],
                          [label |-> "AI", text |-> <<"r">>]>>
    /\ ev.req.userPrompt = <<"t">>
    /\ clarificationQuestion = Null

\* C22: every plan stored on a Workflow has pairwise distinct step ids (a
\* returned plan with duplicate step ids is not stored), and an accepted
\* plan's steps are stored in the order the capability returned them.
C22_StoredPlanWellFormed ==
    /\ [](\A k \in 1..Len(workflows) :
             workflows[k].plan # Null =>
                LET steps == workflows[k].plan.val.steps
                IN \A i, j \in 1..Len(steps) :
                      steps[i].id = steps[j].id => i = j)
    /\ [][ (ev'.op = "planDone" /\ AnswersPlan(ev'.resp)) =>
               Stored'.plan.val.steps = ev'.resp.plan.val.steps ]_vars

\* C23: a failed transcription does not throw: transcribeAudio yields the
\* empty string, no exception leaves the handler, the input buffer is
\* unchanged and the busy flag is false afterwards.
C23_TranscriptionFailureIsEmpty ==
    [][ (ev'.op = "transcribeDone" /\ ev'.resp.tag = "reject") =>
            /\ ~TranscribeAudio(ev'.resp).threw
            /\ TranscribeAudio(ev'.resp).text = <<>>
            /\ ~ev'.threw
            /\ promptText' = promptText
            /\ loading' = FALSE ]_vars

\* C24: right after a plan is accepted the conversation is empty, and an
\* utterance submitted after refine is sent with no turn of the earlier
\* elicitation as prior conversation.
C24_ConversationDiscardedOnAccept ==
    [][ /\ (ev'.op = "planDone" /\ AnswersPlan(ev'.resp)) =>
              conversationHistory' = <<>>
        /\ (ev.op = "refine" /\ ev'.op = "submit" /\ ev'.req # NoReq) =>
              ev'.req.history = <<>> ]_vars

\* C29: in every reachable state of the application in which the view is
\* the wizard, activeWorkflowId is the id of a workflow in the list.
C29_ActiveWorkflowExists ==
    view = "wizard" => \E k \in 1..Len(workflows) : workflows[k].id = activeWorkflowId

C29_Witness ==
    /\ view = "wizard" /\ step = Review
    /\ activeWorkflowId = 2
    /\ Len(workflows) = 1 /\ workflows[1].id = 2
    /\ workflows[1].plan # Null
    /\ session = 2

\* C25: the completion of a request sent by a wizard that was closed, arriving
\* while a newer wizard is open on the same workflow, leaves the plan,
\* prompt, script and status of the stored Workflow as they are.
C25_ClosedWizardDoesNotWrite ==
    [][ (/\ ev'.op \in {"planDone", "scriptDone"}
         /\ Mounted
         /\ ev'.req.sid # session
         /\ ev'.req.wf.id = activeWorkflowId) =>
            /\ Stored'.plan = Stored.plan
            /\ Stored'.prompt = Stored.prompt
            /\ Stored'.script = Stored.script
            /\ Stored'.status = Stored.status ]_vars

IsSuffix(s, t) == Len(s) <= Len(t) /\ SubSeq(t, Len(t) - Len(s) + 1, Len(t)) = s

\* C26: the user turn recorded on a clarification, and the utterance at the
\* end of the prompt stored on acceptance, is the utterance that was sent
\* to the capability in that request, whatever the input buffer holds when
\* the request completes.
C26_RecordedUtteranceIsSentOne ==
    [][ /\ (ev'.op = "planDone" /\ AnswersClarification(ev'.resp)) =>
              /\ Len(conversationHistory') >= 2
              /\ conversationHistory'[Len(conversationHistory') - 1] =
                    UserTurn(ev'.req.userPrompt)
        /\ (ev'.op = "planDone" /\ AnswersPlan(ev'.resp)) =>
              IsSuffix(ev'.req.userPrompt, Stored'.prompt) ]_vars

C26_Witness ==
    /\ ev.op = "planDone" /\ AnswersPlan(ev.resp)
    /\ ev.req.userPrompt = <<"a", " ">>
    /\ promptText = <<"a", " ", " ", "t">>
    /\ Stored.prompt = <<"a", " ">>

\* C27: if every call to the capability eventually resolves or fails, then
\* whenever the wizard is busy it is eventually not busy, and whenever
\* requests are in flight they eventually have all completed.
C27_BusyEnds ==
    /\ loading ~> ~loading
    /\ (inflight # <<>>) ~> (inflight = <<>>)

C27_Witness ==
    /\ ev.op = "planDone" /\ ev.threw
    /\ ~loading
    /\ inflight = <<>>
    /\ calls = MaxCalls

\* C28: the update that a completed request hands to handleUpdateWorkflow
\* replaces the list entry with the updated workflow's id and nothing else:
\* the length, the order of ids and every other entry are unchanged, and
\* when no entry has that id (the workflow was deleted) the list is
\* unchanged.
C28_UpdateReplacesOneEntry ==
    [][ ev'.op \in {"planDone", "scriptDone"} =>
            LET id == ev'.req.wf.id IN
            /\ Len(workflows') = Len(workflows)
            /\ \A k \in 1..Len(workflows) :
                  /\ workflows'[k].id = workflows[k].id
                  /\ workflows[k].id # id => workflows'[k] = workflows[k]
                  /\ (workflows[k].id = id /\ ev'.op = "planDone"
                         /\ AnswersPlan(ev'.resp)) =>
                        workflows'[k] = PlanUpdate(ev'.req.wf, ev'.req.hist,
                                                   ev'.req.text, ev'.resp.plan.val)
                  /\ (workflows[k].id = id /\ ev'.op = "scriptDone"
                         /\ ~ev'.threw) =>
                        workflows'[k] = ScriptUpdate(ev'.req.wf,
                                                     GenerateScript(ev'.resp).text)
            /\ (\A k \in 1..Len(workflows) : workflows[k].id # id) =>
                  workflows' = workflows ]_vars

C28_Witness ==
    /\ ev.op = "planDone" /\ AnswersPlan(ev.resp)
    /\ ev.req.wf.id = 1
    /\ Len(workflows) = 1
    /\ workflows[1] = NewWorkflow(2)

\* the number of messages of a role in the chat
CountRole(msgs, role) ==
    Cardinality({ k \in 1..Len(msgs) : msgs[k].role = role })

\* the settled call of the step appended exactly one model message: the error
\* message when the call was rejected, the reply's text when it has one
OneReplyAppended ==
    \E m \in { ReplyMessage(ChatWithFlowAI(r)) : r \in ChatResponses } :
        /\ messages' = Append(messages, m)
        /\ m.role = "model"
        /\ m.isError <=> ev'.resp.tag = "reject"
        /\ (ev'.resp.tag = "text" /\ ev'.resp.text # <<>>)
              => m.text = ev'.resp.text

\* messages are only appended, one reply per settled call and nothing by any
\* other step than a send; every send is eventually followed by a model
\* message more than the sends before it had
ChatRepliesToSends ==
    /\ [][/\ IsPrefix(messages, messages')
          /\ ev'.op = "sendDone" => OneReplyAppended
          /\ ev'.op \notin {"handleSend", "sendDone"} => messages' = messages
         ]_vars
    /\ [](CountRole(messages, "model")
            = 1 + CountRole(messages, "user") - Len(chatInflight))
    /\ \A n \in 1..MaxSends :
          (CountRole(messages, "user") >= n)
             ~> (CountRole(messages, "model") >= n + 1)

\* C30 as stated: in the assistant chat every send of a non-empty input
\* appends the user message and, the chat call eventually resolving or
\* failing, is eventually followed by exactly one model message for it (the
\* reply or an error message); messages are never removed or reordered, also
\* when a second send is issued while an earlier one is in flight.
C30_SendOfNonEmptyInput ==
    /\ [][(ev'.op = "handleSend" /\ ev'.req.message # <<>>)
             => messages' = Append(messages,
                                   ChatMessage("user", ev'.req.message, FALSE))
         ]_vars
    /\ ChatRepliesToSends

\* C30 amended: in the assistant chat every send of an input that is not
\* empty or whitespace-only appends the user message (a send of a blank input
\* appends nothing) and, the chat call eventually resolving or failing, is
\* eventually followed by exactly one model message for it (the reply or an
\* error message); messages are never removed or reordered, also when a
\* second send is issued while an earlier one is in flight.
C30_SendOfNonBlankInput ==
    /\ [][ev'.op = "handleSend"
             => messages' = IF IsBlank(ev'.req.message) THEN messages
                            ELSE Append(messages,
                                        ChatMessage("user", ev'.req.message,
                                                    FALSE))
         ]_vars
    /\ ChatRepliesToSends

\* two sends overlapped and both were answered, the second call's failure
\* with the error message
C30_Witness ==
    /\ Len(messages) = 5
    /\ messages[2].role = "user"
    /\ messages[3].role = "user"
    /\ messages[4] = ChatMessage("model", <<"r">>, FALSE)
    /\ messages[5] = ChatMessage("model", TryAgain, TRUE)
    /\ chatInflight = <<>>
    /\ ev.op = "sendDone"

====
